---- MODULE Spec2Model ----
(***************************************************************************)
(* Model of httpserver/upload-file.c: the streaming multipart/form-data    *)
(* receive state machine (RecvFSM), the request lifecycle callbacks        *)
(* (upload_headers_cb, upload_read_cb, upload_cb / update_cb,              *)
(* upload_finish_cb) and the progress registry.                            *)
(*                                                                         *)
(* A C string is a sequence of one-character strings; a NULL pointer is    *)
(* the value NULL.  The request body is a sequence of bytes delivered by   *)
(* the transport in chunks.                                                *)
(***************************************************************************)
EXTENDS Integers, Sequences, FiniteSets, TLC

(***************************************************************************)
(* Bounds of the model.                                                    *)
(***************************************************************************)
\* MAX_CONTENT_LINE is 10240 in the source; the model scales it down so
\* that a line buffer of that many bytes is reachable.  It stays above the
\* length of a delimiter line of the generated bodies (a LF, "--X--" and
\* a CR are 7 bytes), as 10240 is above the length of any real delimiter
\* line.
MaxContentLineBound == 8
\* Longest run of ordinary bytes in the file payload of a generated body.
MaxRun == 9
\* Largest chunk the transport hands to one upload_read_cb call.
MaxChunk == 3
\* MAX_UPLOAD_FILE_SIZE is 100 MB in the source; the model scales it down
\* so that a temp file larger than the limit is reachable.
MaxUploadFileSizeBound == 8
\* Number of requests the server sees.
NReq == 2
\* Directory listings hold the candidates "name (1)" .. "name (k)" for k up
\* to this bound, one past the 16 candidates gen_unique_filename tries.
MaxListed == 17

(***************************************************************************)
(* C strings.                                                              *)
(***************************************************************************)
NULL == <<"NULL">>

CR == "\r"
LF == "\n"
CRLF == <<CR, LF>>

UpperChars == <<"A","B","C","D","E","F","G","H","I","J","K","L","M",
                "N","O","P","Q","R","S","T","U","V","W","X","Y","Z">>
LowerChars == <<"a","b","c","d","e","f","g","h","i","j","k","l","m",
                "n","o","p","q","r","s","t","u","v","w","x","y","z">>

\* tolower() of one character.
ToLower(c) ==
    IF \E i \in 1..26 : UpperChars[i] = c
    THEN LowerChars[CHOOSE i \in 1..26 : UpperChars[i] = c]
    ELSE c

\* isspace() of one character (g_strstrip strips these).
IsSpace(c) == c \in {" ", "\t", CR, LF}

\* The suffix of s starting at index i (s + (i-1) in C).
From(s, i) == SubSeq(s, i, Len(s))

\* s starts with p (strncmp (s, p, strlen (p)) == 0).
StartsWith(s, p) ==
    /\ Len(s) >= Len(p)
    /\ \A i \in 1..Len(p) : s[i] = p[i]

\* strncasecmp (s, p, strlen (p)) == 0.
StartsWithNoCase(s, p) ==
    /\ Len(s) >= Len(p)
    /\ \A i \in 1..Len(p) : ToLower(s[i]) = ToLower(p[i])

\* strcasecmp (s, p) == 0.
EqualNoCase(s, p) == Len(s) = Len(p) /\ StartsWithNoCase(s, p)

\* Index of the first occurrence of pat in s, 0 if there is none (strstr,
\* and evbuffer_search for the two bytes CR LF).
IndexOf(s, pat) ==
    LET hits == { i \in 1..(Len(s) - Len(pat) + 1) : StartsWith(From(s, i), pat) }
    IN  IF hits = {} THEN 0 ELSE CHOOSE i \in hits : \A j \in hits : i <= j

\* strstr (s, pat) != NULL.
Contains(s, pat) == IndexOf(s, pat) # 0

\* strchr: index of the first c in s, 0 if none.
StrChr(s, c) == IndexOf(s, <<c>>)

\* strrchr: index of the last c in s, 0 if none.
StrRChr(s, c) ==
    LET hits == { i \in 1..Len(s) : s[i] = c }
    IN  IF hits = {} THEN 0 ELSE CHOOSE i \in hits : \A j \in hits : i >= j

\* g_strstrip: remove leading and trailing white space.
StrStrip(s) ==
    LET keep == { i \in 1..Len(s) : ~IsSpace(s[i]) }
    IN  IF keep = {} THEN << >>
        ELSE SubSeq(s, CHOOSE i \in keep : \A j \in keep : i <= j,
                       CHOOSE i \in keep : \A j \in keep : i >= j)

\* g_strsplit (s, ";", 0): the pieces of s between the delimiters c.  The
\* empty string splits into no piece at all.
RECURSIVE StrSplit(_, _)
StrSplit(s, c) ==
    IF Len(s) = 0 THEN << >>
    ELSE LET i == StrChr(s, c)
         IN  IF i = 0 THEN <<s>>
             ELSE IF i = Len(s) THEN <<SubSeq(s, 1, i - 1), << >> >>
             ELSE <<SubSeq(s, 1, i - 1)>> \o StrSplit(From(s, i + 1), c)

\* The first element of the sequence of strings ps that starts with key
\* (case-insensitively), NULL if there is none: the loops over params.
FirstParam(ps, key) ==
    LET hits == { i \in 1..Len(ps) : StartsWithNoCase(ps[i], key) }
    IN  IF hits = {} THEN NULL
        ELSE ps[CHOOSE i \in hits : \A j \in hits : i <= j]

(***************************************************************************)
(* Program constants and enums.                                            *)
(***************************************************************************)
\* #define MAX_CONTENT_LINE 10240, scaled to the model's bound.
MAX_CONTENT_LINE == MaxContentLineBound

\* enum RecvState.
RECV_INIT == "RECV_INIT"
RECV_HEADERS == "RECV_HEADERS"
RECV_CONTENT == "RECV_CONTENT"
RECV_ERROR == "RECV_ERROR"

\* enum UploadError.
ERROR_FILENAME == 0
ERROR_EXISTS == 1
ERROR_NOT_EXIST == 2
ERROR_SIZE == 3
ERROR_QUOTA == 4
ERROR_RECV == 5
ERROR_INTERNAL == 6

\* evhtp result codes used by the callbacks.
EVHTP_RES_OK == 200
EVHTP_RES_FOUND == 302
EVHTP_RES_BADREQ == 400
EVHTP_RES_SERVERR == 500

\* String literals of the source.
StrContentDisposition == <<"C","o","n","t","e","n","t","-","D","i","s","p","o","s","i","t","i","o","n">>
StrFormData == <<"f","o","r","m","-","d","a","t","a">>
StrName == <<"n","a","m","e">>
StrFilename == <<"f","i","l","e","n","a","m","e">>
StrFile == <<"f","i","l","e">>
StrParentDir == <<"p","a","r","e","n","t","_","d","i","r">>
StrTargetFile == <<"t","a","r","g","e","t","_","f","i","l","e">>
StrMultipart == <<"m","u","l","t","i","p","a","r","t","/","f","o","r","m","-","d","a","t","a">>
StrBoundary == <<"b","o","u","n","d","a","r","y">>

(***************************************************************************)
(* MIME part headers.                                                      *)
(***************************************************************************)
\* The text between the first and the last double quote of param, NULL
\* when there are no two distinct quotes.
get_mime_header_param_value(param) ==
    LET first_quote == StrChr(param, "\"")
        last_quote == StrRChr(param, "\"")
    IN  IF first_quote = 0 \/ last_quote = 0 \/ first_quote = last_quote
        THEN NULL
        ELSE SubSeq(param, first_quote + 1, last_quote - 1)

\* The stripped pieces of a header value split at ';'.
SplitParams(value) ==
    LET raw == StrSplit(value, ";")
    IN  [i \in 1..Len(raw) |-> StrStrip(raw[i])]

\* parse_mime_header: [rc, fsm].  Only a Content-Disposition header
\* changes the FSM: it sets input_name and, for the part named file,
\* file_name.
parse_mime_header(header, fsm) ==
    LET colon == StrChr(header, ":")
        params == SplitParams(From(header, colon + 1))
        np == FirstParam(params, StrName)
        fsm1 == IF np = NULL THEN fsm
                ELSE [fsm EXCEPT !.input_name = get_mime_header_param_value(np)]
        fp == FirstParam(params, StrFilename)
        fsm2 == IF fp = NULL THEN fsm1
                ELSE [fsm1 EXCEPT !.file_name = get_mime_header_param_value(fp)]
    IN  IF colon = 0 THEN [rc |-> -1, fsm |-> fsm]
        ELSE IF SubSeq(header, 1, colon - 1) # StrContentDisposition
             THEN [rc |-> 0, fsm |-> fsm]
        ELSE IF Len(params) < 2 THEN [rc |-> -1, fsm |-> fsm]
        ELSE IF ~EqualNoCase(params[1], StrFormData) THEN [rc |-> -1, fsm |-> fsm]
        ELSE IF fsm1.input_name = NULL THEN [rc |-> -1, fsm |-> fsm1]
        ELSE IF fsm1.input_name # StrFile THEN [rc |-> 0, fsm |-> fsm1]
        ELSE IF fsm2.file_name = NULL THEN [rc |-> -1, fsm |-> fsm2]
        ELSE [rc |-> 0, fsm |-> fsm2]

(***************************************************************************)
(* The line buffer and the temp files.                                     *)
(*                                                                         *)
(* The temp files a request created are the sequence files; fsm.tmp_file   *)
(* is NULL (0) or the index of one of them, fsm.fd is 0 (g_new0), -1       *)
(* (mkstemp failed) or the index of the file the descriptor is open on.    *)
(* A parse is run on a context c = [fsm, files, crashed, no_line, res,     *)
(* io]: the FSM, the files, whether the process died, the locals no_line   *)
(* and res of upload_read_cb, and what the disk does during this callback  *)
(* (io = "ok", "open_fails": mkstemp returns -1, "write_fails": a write    *)
(* returns -1).                                                            *)
(***************************************************************************)
IoKinds == {"ok", "open_fails", "write_fails"}

\* evbuffer_readln (buf, &len, EVBUFFER_EOL_CRLF_STRICT): the bytes before
\* the first CR LF, which are removed from the buffer with the CR LF.
evbuffer_readln(buf) ==
    LET i == IndexOf(buf, CRLF)
    IN  IF i = 0 THEN [found |-> FALSE, line |-> << >>, rest |-> buf]
        ELSE [found |-> TRUE, line |-> SubSeq(buf, 1, i - 1),
              rest |-> From(buf, i + 2)]

\* writen (fd, data, n) and evbuffer_write (buf, fd): append to the file
\* behind the descriptor.  The call fails on a bad descriptor and when the
\* disk fails.
WriteOk(c) ==
    /\ c.io # "write_fails"
    /\ c.fsm.fd \in 1..Len(c.files)
    /\ c.files[c.fsm.fd].open

writen(files, fd, data) ==
    [files EXCEPT ![fd].content = @ \o data]

\* A variant of open_temp_file that reports success when mkstemp fails.
open_temp_file_unchecked(c) ==
    IF c.io = "open_fails"
    THEN [rc |-> 0, c |-> [c EXCEPT !.fsm.fd = -1]]
    ELSE LET n == Len(c.files) + 1
         IN  [rc |-> 0,
              c |-> [c EXCEPT !.files = Append(@, [content |-> << >>,
                                                    open |-> TRUE,
                                                    linked |-> TRUE]),
                              !.fsm.fd = n,
                              !.fsm.tmp_file = n]]

\* open_temp_file: mkstemp creates a new, uniquely named file and opens it;
\* fsm->fd and fsm->tmp_file are overwritten with the new file's.
open_temp_file(c) ==
    IF c.io = "open_fails"
    THEN [rc |-> -1, c |-> [c EXCEPT !.fsm.fd = -1]]
    ELSE LET n == Len(c.files) + 1
         IN  [rc |-> 0,
              c |-> [c EXCEPT !.files = Append(@, [content |-> << >>,
                                                    open |-> TRUE,
                                                    linked |-> TRUE]),
                              !.fsm.fd = n,
                              !.fsm.tmp_file = n]]

\* g_hash_table_insert (form_kvs, key, value): form_kvs is the set of its
\* <<key, value>> pairs; an equal key is replaced.
HashInsert(kvs, key, value) ==
    { p \in kvs : p[1] # key } \cup { <<key, value>> }

\* g_hash_table_lookup: the value of key, NULL if there is none.
HashLookup(kvs, key) ==
    IF \E p \in kvs : p[1] = key
    THEN (CHOOSE p \in kvs : p[1] = key)[2]
    ELSE NULL

\* recv_form_field: one line of a form field.  A boundary line ends the
\* field; any other line is stored under input_name.  g_strdup (NULL) is
\* NULL and g_str_hash (NULL) reads through the NULL key: the process dies.
recv_form_field(c) ==
    LET r == evbuffer_readln(c.fsm.line)
        c1 == [c EXCEPT !.fsm.line = r.rest]
    IN  IF ~r.found THEN [c EXCEPT !.no_line = TRUE]
        ELSE IF Contains(r.line, c.fsm.boundary)
             THEN [c1 EXCEPT !.fsm.input_name = NULL,
                             !.fsm.state = RECV_HEADERS]
        ELSE IF c.fsm.input_name = NULL
             THEN [c1 EXCEPT !.crashed = TRUE]
        ELSE [c1 EXCEPT !.fsm.form_kvs =
                            HashInsert(@, c.fsm.input_name, r.line)]

\* recv_file_data: one line of the file part.  Without a complete line the
\* buffer is flushed to the file once it holds MAX_CONTENT_LINE bytes; a
\* boundary line ends the part; any other line is written, its CR LF
\* deferred to the next write by recved_crlf.
recv_file_data(c) ==
    LET r == evbuffer_readln(c.fsm.line)
        c1 == [c EXCEPT !.fsm.line = r.rest]
        pre == IF c.fsm.recved_crlf THEN CRLF ELSE << >>
    IN  IF ~r.found
        THEN IF Len(c.fsm.line) >= MAX_CONTENT_LINE
             THEN IF ~WriteOk(c)
                  THEN [c EXCEPT !.res = EVHTP_RES_SERVERR]
                  ELSE [c EXCEPT !.files = writen(@, c.fsm.fd, pre \o c.fsm.line),
                                 !.fsm.line = << >>,
                                 !.fsm.recved_crlf = FALSE,
                                 !.no_line = TRUE]
             ELSE [c EXCEPT !.no_line = TRUE]
        ELSE IF Contains(r.line, c.fsm.boundary)
             THEN [c1 EXCEPT !.fsm.input_name = NULL,
                             !.fsm.state = RECV_HEADERS]
        ELSE IF ~WriteOk(c)
             THEN [c1 EXCEPT !.res = EVHTP_RES_SERVERR]
        ELSE [c1 EXCEPT !.files = writen(@, c.fsm.fd, pre \o r.line),
                        !.fsm.recved_crlf = TRUE]

\* A variant of RecvInit that takes any first line for the boundary line.
RecvInitAnyLine(c) ==
    LET r == evbuffer_readln(c.fsm.line)
        c1 == [c EXCEPT !.fsm.line = r.rest]
    IN  IF ~r.found THEN [c EXCEPT !.no_line = TRUE]
        ELSE [c1 EXCEPT !.fsm.state = RECV_HEADERS]

\* case RECV_INIT of upload_read_cb: the first line must contain the
\* boundary.
RecvInit(c) ==
    LET r == evbuffer_readln(c.fsm.line)
        c1 == [c EXCEPT !.fsm.line = r.rest]
    IN  IF ~r.found THEN [c EXCEPT !.no_line = TRUE]
        ELSE IF ~Contains(r.line, c.fsm.boundary)
             THEN [c1 EXCEPT !.res = EVHTP_RES_BADREQ]
        ELSE [c1 EXCEPT !.fsm.state = RECV_HEADERS]

\* One turn of the while loop of upload_read_cb: the switch on fsm->state.
ReadStep(c) ==
    LET r == evbuffer_readln(c.fsm.line)
        c1 == [c EXCEPT !.fsm.line = r.rest]
    IN  CASE c.fsm.state = RECV_INIT -> RecvInit(c)
          [] c.fsm.state = RECV_HEADERS ->
               IF ~r.found THEN [c EXCEPT !.no_line = TRUE]
               ELSE IF Len(r.line) = 0
                    THEN IF c.fsm.input_name = StrFile
                         THEN LET o == open_temp_file(c1)
                              IN  IF o.rc < 0
                                  THEN [o.c EXCEPT !.res = EVHTP_RES_SERVERR]
                                  ELSE [o.c EXCEPT !.fsm.state = RECV_CONTENT]
                         ELSE [c1 EXCEPT !.fsm.state = RECV_CONTENT]
               ELSE LET h == parse_mime_header(r.line, c1.fsm)
                    IN  IF h.rc < 0
                        THEN [c1 EXCEPT !.fsm = h.fsm, !.res = EVHTP_RES_BADREQ]
                        ELSE [c1 EXCEPT !.fsm = h.fsm]
          [] c.fsm.state = RECV_CONTENT ->
               IF c.fsm.input_name = StrFile
               THEN recv_file_data(c)
               ELSE recv_form_field(c)
          [] OTHER -> [c EXCEPT !.no_line = TRUE]

\* while (!no_line) { ... }, left early by goto out (res != OK) or by the
\* death of the process.  (The context of each turn is bound as a value,
\* c, so that it is computed once.)
RECURSIVE ReadLoop(_)
ReadLoop(c0) ==
    CHOOSE out \in
        { IF c.no_line \/ c.res # EVHTP_RES_OK \/ c.crashed THEN c
          ELSE ReadLoop(ReadStep(c)) : c \in {c0} } : TRUE

\* The body of upload_read_cb after the progress update: the chunk is
\* appended to the line buffer, the loop runs, and a failure moves the FSM
\* to RECV_ERROR.  The result is [fsm, files, crashed, res].
ReadChunk(fsm, files, chunk, io) ==
    CHOOSE out \in
        { [fsm |-> IF c.res # EVHTP_RES_OK /\ ~c.crashed
                   THEN [c.fsm EXCEPT !.state = RECV_ERROR]
                   ELSE c.fsm,
           files |-> c.files, crashed |-> c.crashed, res |-> c.res] :
          c \in { ReadLoop([fsm |-> [fsm EXCEPT !.line = @ \o chunk],
                            files |-> files, crashed |-> FALSE,
                            no_line |-> FALSE, res |-> EVHTP_RES_OK,
                            io |-> io]) } } : TRUE

(***************************************************************************)
(* Route handlers: helpers.                                                *)
(***************************************************************************)
\* #define MAX_UPLOAD_FILE_SIZE (100 MB), scaled to the model's bound.
MAX_UPLOAD_FILE_SIZE == MaxUploadFileSizeBound

Digits == <<"0","1","2","3","4","5","6","7","8","9">>

\* printf's %d of a number 0..99.
IntToStr(n) ==
    IF n < 10 THEN <<Digits[n + 1]>>
    ELSE <<Digits[(n \div 10) + 1], Digits[(n % 10) + 1]>>

\* split_filename: the name before and the extension after the last '.',
\* the extension NULL when there is no '.'.
split_filename(filename) ==
    LET dot == StrRChr(filename, ".")
    IN  IF dot # 0
        THEN [name |-> SubSeq(filename, 1, dot - 1), ext |-> From(filename, dot + 1)]
        ELSE [name |-> filename, ext |-> NULL]

\* filename_exists: dir is the set of the entries' names.
filename_exists(dir, filename) == filename \in dir

\* "%s (%d).%s" or "%s (%d)".
Candidate(sp, i) ==
    IF sp.ext # NULL
    THEN sp.name \o <<" ", "(">> \o IntToStr(i) \o <<")", ".">> \o sp.ext
    ELSE sp.name \o <<" ", "(">> \o IntToStr(i) \o <<")">>

\* A variant of UniqueLoop that stops one candidate early.
RECURSIVE UniqueLoopShort(_, _, _, _)
UniqueLoopShort(dir, sp, unique_name, i) ==
    IF filename_exists(dir, unique_name) /\ i < 16
    THEN UniqueLoopShort(dir, sp, Candidate(sp, i), i + 1)
    ELSE [unique_name |-> unique_name, i |-> i]

\* The while loop of gen_unique_filename: unique_name and i when it ends.
RECURSIVE UniqueLoop(_, _, _, _)
UniqueLoop(dir, sp, unique_name, i) ==
    IF filename_exists(dir, unique_name) /\ i <= 16
    THEN UniqueLoop(dir, sp, Candidate(sp, i), i + 1)
    ELSE [unique_name |-> unique_name, i |-> i]

\* gen_unique_filename: NULL when the repo, its head commit or the
\* directory cannot be found; dir.entries is the set of the names in the
\* directory.
gen_unique_filename(dir, filename) ==
    IF ~dir.found THEN NULL
    ELSE UniqueLoop(dir.entries, split_filename(filename), filename,
                    1).unique_name

\* g_path_get_dirname.
g_path_get_dirname(file_name) ==
    LET base == StrRChr(file_name, "/")
        nonslash == { i \in 1..base : file_name[i] # "/" }
    IN  IF base = 0 THEN <<".">>
        ELSE IF nonslash = {} THEN <<"/">>
        ELSE SubSeq(file_name, 1, CHOOSE i \in nonslash : \A j \in nonslash : i >= j)

\* g_path_get_basename.
g_path_get_basename(file_name) ==
    LET nonslash == { i \in 1..Len(file_name) : file_name[i] # "/" }
        last == CHOOSE i \in nonslash : \A j \in nonslash : i >= j
        slashes == { i \in 1..last : file_name[i] = "/" }
        base == IF slashes = {} THEN 0
                ELSE CHOOSE i \in slashes : \A j \in slashes : i >= j
    IN  IF Len(file_name) = 0 THEN <<".">>
        ELSE IF nonslash = {} THEN <<"/">>
        ELSE SubSeq(file_name, base + 1, last)

\* A variant of stat that reports a missing file as an empty one.
stat_missing_as_empty(fsm, files) ==
    IF fsm.tmp_file \in 1..Len(files) /\ files[fsm.tmp_file].linked
    THEN Len(files[fsm.tmp_file].content)
    ELSE 0

\* stat (fsm->tmp_file, &st): -1 when the path is NULL (EFAULT) or names
\* no file, else the size of the file.
stat(fsm, files) ==
    IF fsm.tmp_file \in 1..Len(files) /\ files[fsm.tmp_file].linked
    THEN Len(files[fsm.tmp_file].content)
    ELSE -1

\* What the back-end answers while a handler runs (env): whether
\* check_quota succeeds, the directory gen_unique_filename reads and the
\* error message of post_file / put_file ("" for none).
RpcErrors == {"", "Invalid filename", "file already exists",
              "file does not exist", "other"}

Redirect(err) == [code |-> EVHTP_RES_FOUND, err |-> err]
Reply(code) == [code |-> code, err |-> -1]
\* A back-end call with its arguments and whether it succeeded.
Rpc(name, fsm, dir, fname, ok) ==
    [rpc |-> name, tmp_file |-> fsm.tmp_file, parent_dir |-> dir,
     name |-> fname, ok |-> ok]

\* A variant of SizeTooLarge that accepts every size.
SizeNeverTooLarge(size) == FALSE

\* (gint64)st.st_size > MAX_UPLOAD_FILE_SIZE
SizeTooLarge(size) == size > MAX_UPLOAD_FILE_SIZE

\* upload_cb with a live FSM that is not in RECV_ERROR: the replies sent
\* and the RPCs made, in order.
UploadCb(fsm, files, env) ==
    LET parent_dir == HashLookup(fsm.form_kvs, StrParentDir)
        size == stat(fsm, files)
        unique_name == gen_unique_filename(env.dir, fsm.file_name)
        quota == Rpc("check_quota", fsm, NULL, NULL, env.quota_ok)
        post == Rpc("post_file", fsm, parent_dir, unique_name, env.error = "")
        code == CASE env.error = "Invalid filename" -> ERROR_FILENAME
                  [] env.error = "file already exists" -> ERROR_EXISTS
                  [] OTHER -> ERROR_INTERNAL
    IN  IF parent_dir = NULL
        THEN [replies |-> <<Reply(EVHTP_RES_BADREQ)>>, rpcs |-> << >>]
        ELSE IF size < 0
        THEN [replies |-> <<Redirect(ERROR_RECV)>>, rpcs |-> << >>]
        ELSE IF SizeTooLarge(size)
        THEN [replies |-> <<Redirect(ERROR_SIZE)>>, rpcs |-> << >>]
        ELSE IF ~env.quota_ok
        THEN [replies |-> <<Redirect(ERROR_QUOTA)>>, rpcs |-> <<quota>>]
        ELSE IF unique_name = NULL
        THEN [replies |-> <<Redirect(ERROR_INTERNAL)>>, rpcs |-> <<quota>>]
        ELSE IF env.error # ""
        THEN [replies |-> <<Redirect(code)>>, rpcs |-> <<quota, post>>]
        ELSE [replies |-> <<Redirect(-1)>>, rpcs |-> <<quota, post>>]

\* update_cb with a live FSM that is not in RECV_ERROR.
UpdateCb(fsm, files, env) ==
    LET target_file == HashLookup(fsm.form_kvs, StrTargetFile)
        size == stat(fsm, files)
        quota == Rpc("check_quota", fsm, NULL, NULL, env.quota_ok)
        put == Rpc("put_file", fsm, g_path_get_dirname(target_file),
                   g_path_get_basename(target_file), env.error = "")
        code == IF env.error = "file does not exist" THEN ERROR_NOT_EXIST
                ELSE ERROR_INTERNAL
    IN  IF target_file = NULL
        THEN [replies |-> <<Reply(EVHTP_RES_BADREQ)>>, rpcs |-> << >>]
        ELSE IF size < 0
        THEN [replies |-> <<Redirect(ERROR_RECV)>>, rpcs |-> << >>]
        ELSE IF SizeTooLarge(size)
        THEN [replies |-> <<Redirect(ERROR_SIZE)>>, rpcs |-> << >>]
        ELSE IF ~env.quota_ok
        THEN [replies |-> <<Redirect(ERROR_QUOTA)>>, rpcs |-> <<quota>>]
        ELSE IF env.error # ""
        THEN [replies |-> <<Redirect(code)>>, rpcs |-> <<quota, put>>]
        ELSE [replies |-> <<Redirect(-1)>>, rpcs |-> <<quota, put>>]

(***************************************************************************)
(* HTTP headers of the request.                                            *)
(***************************************************************************)
\* get_http_header_param_value: the text after the first '='.
get_http_header_param_value(param) ==
    LET equal == StrChr(param, "=")
    IN  IF equal = 0 THEN NULL ELSE From(param, equal + 1)

\* get_boundary: the boundary parameter of the Content-Type header, NULL
\* when the header is missing or is not multipart/form-data with a
\* boundary parameter.
get_boundary(content_type) ==
    LET params == SplitParams(content_type)
        bp == FirstParam(params, StrBoundary)
    IN  IF content_type = NULL THEN NULL
        ELSE IF Len(params) < 2 THEN NULL
        ELSE IF ~EqualNoCase(params[1], StrMultipart) THEN NULL
        ELSE IF bp = NULL THEN NULL
        ELSE get_http_header_param_value(bp)

(***************************************************************************)
(* State.                                                                  *)
(***************************************************************************)
Reqs == 1..NReq

VARIABLES
    req,              \* req[r]: the request as the client sends it
    pc,               \* pc[r]: "absent", "headers", "body" or "done"
    handled,          \* handled[r]: the route handler has run
    pos,              \* pos[r]: bytes of the body handed to upload_read_cb
    cbarg,            \* cbarg[r]: the request's RecvFSM pointer: "NULL", "fsm", "freed"
    fsm,              \* fsm[r]: the RecvFSM
    files,            \* files[r]: the temp files request r created
    replies,          \* replies[r]: the replies sent for request r
    rpcs,             \* rpcs[r]: the back-end RPCs the handler of r made
    conn,             \* conn[r]: [keepalive, paused] of the request
    progress,         \* progress[r]: the Progress record request r allocated
    upload_progress,  \* the registry: progress id -> 0 or the record's owner
    crashed,          \* the server process died
    fault,            \* fault[r]: the disk failed during a callback of r
    uaf,              \* freed memory was read or written
    poll,             \* the request to /upload_progress being served
    unique            \* a call of gen_unique_filename: arguments and result

vars == <<req, pc, handled, pos, cbarg, fsm, files, replies, rpcs, conn,
          progress, upload_progress, crashed, fault, uaf, poll, unique>>

ProgressIds == 1..NReq

\* g_new0 (RecvFSM, 1) with the fields upload_headers_cb sets.
NewFsm(boundary, progress_id) ==
    [state |-> RECV_INIT, boundary |-> boundary, input_name |-> NULL,
     line |-> << >>, form_kvs |-> {}, recved_crlf |-> FALSE,
     file_name |-> NULL, tmp_file |-> 0, fd |-> 0,
     progress_id |-> progress_id]

\* No RecvFSM: before upload_headers_cb and after g_free (fsm).
NoFsm == NewFsm(NULL, 0)

\* No Progress record allocated.
NoProgress == [uploaded |-> 0, size |-> 0, live |-> FALSE]

\* free() of a Progress record.  The allocator may reuse the bytes of the
\* freed record at once (clobber) or leave them as they are.
FreeProgress(rec, clobber) ==
    IF clobber THEN [uploaded |-> -1, size |-> -1, live |-> FALSE]
    ELSE [rec EXCEPT !.live = FALSE]

\* Content-Length as strtoll reads it: the transport delivers that many
\* body bytes.
ContentLength(r) == Len(req[r].body)

Min(a, b) == IF a < b THEN a ELSE b

(***************************************************************************)
(* Callbacks.                                                              *)
(***************************************************************************)
\* upload_headers_cb: validate the request, then construct the Progress
\* record and the RecvFSM and insert the record into the registry.  An
\* insert under an id that is already in the registry frees the record
\* stored there (the table's value destroy function is g_free).
upload_headers_cb(r) ==
    LET boundary == get_boundary(req[r].content_type)
        id == req[r].progress_id
        valid == /\ req[r].token = "ok"
                 /\ boundary # NULL
                 /\ req[r].has_length
                 /\ id # 0
        old == upload_progress[id]
    IN  /\ ~crashed
        /\ pc[r] = "headers"
        /\ pc' = [pc EXCEPT ![r] = "body"]
        /\ IF ~valid
           THEN /\ conn' = [conn EXCEPT ![r] = [keepalive |-> FALSE, paused |-> TRUE]]
                /\ replies' = [replies EXCEPT ![r] = Append(@, Reply(EVHTP_RES_BADREQ))]
                /\ UNCHANGED <<cbarg, fsm, progress, upload_progress>>
           ELSE /\ \E clobber \in (IF old = 0 THEN {FALSE} ELSE BOOLEAN) :
                      progress' =
                          [o \in Reqs |->
                              IF o = r
                              THEN [uploaded |-> 0, size |-> ContentLength(r), live |-> TRUE]
                              ELSE IF o = old THEN FreeProgress(progress[o], clobber)
                              ELSE progress[o]]
                /\ upload_progress' = [upload_progress EXCEPT ![id] = r]
                /\ fsm' = [fsm EXCEPT ![r] = NewFsm(boundary, id)]
                /\ cbarg' = [cbarg EXCEPT ![r] = "fsm"]
                /\ UNCHANGED <<conn, replies>>
        /\ UNCHANGED <<req, handled, pos, files, rpcs, crashed, fault, uaf,
                       poll, unique>>

\* A variant of ReadIgnored that never skips a chunk.
ReadNeverIgnored(f) == FALSE

\* if (fsm->state == RECV_ERROR) return EVHTP_RES_OK; at the top of
\* upload_read_cb.
ReadIgnored(f) == f.state = RECV_ERROR

\* A variant of AddUploaded that counts a chunk only when it parsed.
AddUploadedIfParsed(uploaded, n, res) ==
    IF res = EVHTP_RES_OK THEN uploaded + n ELSE uploaded

\* fsm->progress->uploaded += evbuffer_get_length (buf), done before the
\* chunk is parsed: res, the outcome of the parsing, plays no part.
AddUploaded(uploaded, n, res) == uploaded + n

\* upload_read_cb: one body chunk.  In RECV_ERROR the chunk is ignored;
\* otherwise the progress counter is advanced through fsm->progress and
\* the chunk is parsed.
upload_read_cb(r) ==
    /\ ~crashed
    /\ pc[r] = "body"
    /\ cbarg[r] = "fsm"
    /\ ~handled[r]
    /\ pos[r] < ContentLength(r)
    /\ \E n \in 1..Min(MaxChunk, ContentLength(r) - pos[r]), io \in IoKinds :
          \E c \in { ReadChunk(fsm[r], files[r],
                               SubSeq(req[r].body, pos[r] + 1, pos[r] + n), io) },
             ok \in { ReadChunk(fsm[r], files[r],
                                SubSeq(req[r].body, pos[r] + 1, pos[r] + n), "ok") } :
              /\ pos' = [pos EXCEPT ![r] = @ + n]
              /\ IF ReadIgnored(fsm[r])
                 THEN UNCHANGED <<fsm, files, progress, crashed, conn,
                                  replies, fault, uaf>>
                 ELSE /\ progress' = [progress EXCEPT ![r].uploaded =
                                          AddUploaded(@, n, c.res)]
                      /\ uaf' = (uaf \/ ~progress[r].live)
                      /\ fsm' = [fsm EXCEPT ![r] = c.fsm]
                      /\ files' = [files EXCEPT ![r] = c.files]
                      /\ crashed' = c.crashed
                      /\ fault' = [fault EXCEPT ![r] = @ \/ c # ok]
                      /\ IF c.res # EVHTP_RES_OK /\ ~c.crashed
                         THEN /\ conn' = [conn EXCEPT ![r] =
                                            [keepalive |-> FALSE, paused |-> TRUE]]
                              /\ replies' = [replies EXCEPT ![r] =
                                                Append(@, Reply(c.res))]
                         ELSE UNCHANGED <<conn, replies>>
    /\ UNCHANGED <<req, pc, handled, cbarg, rpcs, upload_progress, poll,
                   unique>>

HandlerEnvs ==
    [quota_ok : BOOLEAN,
     dir : {[found |-> FALSE, entries |-> {}],
            [found |-> TRUE, entries |-> {}],
            [found |-> TRUE, entries |-> {<<"a">>}]},
     error : RpcErrors]

\* When the transport calls the route handler of request r: once the
\* whole body has been delivered, and also for a request that
\* upload_headers_cb rejected (fsm NULL).
HandlerEnabled(r, route) ==
    /\ ~crashed
    /\ pc[r] = "body"
    /\ ~handled[r]
    /\ req[r].route = route
    /\ cbarg[r] = "NULL" \/ pos[r] = ContentLength(r)

\* A variant of HandlerReturns that goes on with a NULL fsm.
HandlerReturnsOnErrorOnly(arg, f) == f.state = RECV_ERROR

\* A variant of HandlerReturns that goes on in RECV_ERROR.
HandlerReturnsOnNullOnly(arg, f) == arg = "NULL"

\* if (!fsm || fsm->state == RECV_ERROR) return; at the top of upload_cb
\* and update_cb.
HandlerReturns(arg, f) == arg = "NULL" \/ f.state = RECV_ERROR

\* upload_cb, the handler of /upload/<token>.
upload_cb(r) ==
    /\ HandlerEnabled(r, "upload")
    /\ handled' = [handled EXCEPT ![r] = TRUE]
    /\ IF HandlerReturns(cbarg[r], fsm[r])
       THEN UNCHANGED <<replies, rpcs>>
       ELSE \E env \in HandlerEnvs :
               \E out \in { UploadCb(fsm[r], files[r], env) } :
                   /\ replies' = [replies EXCEPT ![r] = @ \o out.replies]
                   /\ rpcs' = [rpcs EXCEPT ![r] = @ \o out.rpcs]
    /\ UNCHANGED <<req, pc, pos, cbarg, fsm, files, conn, progress,
                   upload_progress, crashed, fault, uaf, poll, unique>>

\* update_cb, the handler of /update/<token>.
update_cb(r) ==
    /\ HandlerEnabled(r, "update")
    /\ handled' = [handled EXCEPT ![r] = TRUE]
    /\ IF HandlerReturns(cbarg[r], fsm[r])
       THEN UNCHANGED <<replies, rpcs>>
       ELSE \E env \in HandlerEnvs :
               \E out \in { UpdateCb(fsm[r], files[r], env) } :
                   /\ replies' = [replies EXCEPT ![r] = @ \o out.replies]
                   /\ rpcs' = [rpcs EXCEPT ![r] = @ \o out.rpcs]
    /\ UNCHANGED <<req, pc, pos, cbarg, fsm, files, conn, progress,
                   upload_progress, crashed, fault, uaf, poll, unique>>

\* close (fsm->fd) and g_unlink (fsm->tmp_file), done when tmp_file is set.
ReleaseTempFile(f, fs) ==
    IF f.tmp_file = 0 THEN fs
    ELSE [i \in 1..Len(fs) |->
             [content |-> fs[i].content,
              open |-> fs[i].open /\ i # f.fd,
              linked |-> fs[i].linked /\ i # f.tmp_file]]

\* upload_finish_cb: runs last for the request, also after a client abort
\* at any point of the body.  It releases the FSM, closes and unlinks the
\* temp file fsm->tmp_file names and removes the registry entry stored
\* under the request's progress id, which frees the record stored there.
upload_finish_cb(r) ==
    LET id == fsm[r].progress_id
        old == upload_progress[id]
    IN  /\ ~crashed
        /\ pc[r] = "body"
        /\ pc' = [pc EXCEPT ![r] = "done"]
        /\ IF cbarg[r] = "NULL"
           THEN UNCHANGED <<cbarg, fsm, files, progress, upload_progress>>
           ELSE /\ files' = [files EXCEPT ![r] = ReleaseTempFile(fsm[r], @)]
                /\ \E clobber \in (IF old = 0 THEN {FALSE} ELSE BOOLEAN) :
                      progress' =
                          [o \in Reqs |->
                              IF o = old THEN FreeProgress(progress[o], clobber)
                              ELSE progress[o]]
                /\ upload_progress' = [upload_progress EXCEPT ![id] = 0]
                /\ fsm' = [fsm EXCEPT ![r] = NoFsm]
                /\ cbarg' = [cbarg EXCEPT ![r] = "freed"]
        /\ UNCHANGED <<req, handled, pos, replies, rpcs, conn, crashed,
                       fault, uaf, poll, unique>>

\* No request to /upload_progress yet.  pc is "start", "unlocked" (the
\* registry lookup is done and pg_lock released) or "done"; ptr is the
\* owner of the Progress record the lookup returned, 0 for NULL.
NoPoll ==
    [pc |-> "start", ptr |-> 0, reply |-> 0, uploaded |-> 0, length |-> 0,
     read_freed |-> FALSE]

\* upload_progress_cb up to pthread_mutex_unlock: the query parameters are
\* checked (id 0: no X-Progress-ID), then the registry is looked up under
\* pg_lock.
upload_progress_cb ==
    /\ ~crashed
    /\ poll.pc = "start"
    /\ \E id \in ProgressIds \cup {0}, callback \in BOOLEAN :
          poll' = IF id = 0 \/ ~callback
                  THEN [poll EXCEPT !.pc = "done", !.reply = EVHTP_RES_BADREQ]
                  ELSE [poll EXCEPT !.pc = "unlocked",
                                    !.ptr = upload_progress[id]]
    /\ UNCHANGED <<req, pc, handled, pos, cbarg, fsm, files, replies, rpcs,
                   conn, progress, upload_progress, crashed, fault, uaf,
                   unique>>

\* The rest of upload_progress_cb, after pthread_mutex_unlock: a NULL
\* record is answered with 400; otherwise uploaded and size are read
\* through the pointer and sent with 200.
upload_progress_reply ==
    /\ ~crashed
    /\ poll.pc = "unlocked"
    /\ IF poll.ptr = 0
       THEN /\ poll' = [poll EXCEPT !.pc = "done", !.reply = EVHTP_RES_BADREQ]
            /\ UNCHANGED uaf
       ELSE /\ poll' = [poll EXCEPT !.pc = "done",
                                    !.reply = EVHTP_RES_OK,
                                    !.uploaded = progress[poll.ptr].uploaded,
                                    !.length = progress[poll.ptr].size,
                                    !.read_freed = ~progress[poll.ptr].live]
            /\ uaf' = (uaf \/ ~progress[poll.ptr].live)
    /\ UNCHANGED <<req, pc, handled, pos, cbarg, fsm, files, replies, rpcs,
                   conn, progress, upload_progress, crashed, fault, unique>>

(***************************************************************************)
(* Requests the client sends.                                              *)
(***************************************************************************)
\* The boundary of the generated bodies and the Content-Type header that
\* announces it: "multipart/form-data; boundary=X".
Boundary == <<"X">>
ContentType == StrMultipart \o <<";", " ">> \o StrBoundary \o <<"=">> \o Boundary

\* "--X" CR LF and "--X--" CR LF.
DelimLine == <<"-", "-">> \o Boundary \o CRLF
FinalLine == <<"-", "-">> \o Boundary \o <<"-", "-">> \o CRLF

\* Content-Disposition: form-data; name="<name>"
HdrField(name) ==
    StrContentDisposition \o <<":", " ">> \o StrFormData \o <<";", " ">>
        \o StrName \o <<"=", "\"">> \o name \o <<"\"">>

\* Content-Disposition: form-data; name="file"; filename="<fn>"
HdrFile(fn) ==
    HdrField(StrFile) \o <<";", " ">> \o StrFilename \o <<"=", "\"">> \o fn \o <<"\"">>

\* One part: its header line, the blank line, the payload and the CR LF
\* that belongs to the delimiter after it.
Part(hdr, payload) == hdr \o CRLF \o CRLF \o payload \o CRLF

FieldPart(name, value) == Part(HdrField(name), value)
FilePart(fn, payload) == Part(HdrFile(fn), payload)

\* File payloads: a run of ordinary bytes, after nothing or a first line,
\* and before nothing, a CR, a LF, or a CR LF and one more byte.
Run(k) == [i \in 1..k |-> "a"]
PayloadHeads == { << >>, <<"a", CR, LF>> }
PayloadTails == { << >>, <<CR>>, <<LF>>, <<CR, LF, "a">> }
Payloads ==
    { h \o Run(k) \o t : h \in PayloadHeads, k \in 0..MaxRun, t \in PayloadTails }

DirValue == <<"/", "d">>
TargetValue == <<"/", "d", "/", "a">>

\* An upload of one file part with payload B.
FileBody(B) == DelimLine \o FilePart(<<"a">>, B) \o FinalLine

\* Uploads of one file part, with any of the payloads.
FileBodies == { FileBody(B) : B \in Payloads }

\* A well-formed upload: a parent_dir field with value P and one file part
\* with payload B.
UploadBody(P, B) ==
    DelimLine \o FieldPart(StrParentDir, P) \o DelimLine
        \o FilePart(<<"a">>, B) \o FinalLine

UploadPayloads ==
    { << >>, <<"a">>, <<"a", CR, LF, "a">>, Run(MaxRun - 2), Run(MaxRun) }

UploadBodies == { UploadBody(DirValue, B) : B \in UploadPayloads }

\* A payload of one line that holds the boundary string in its middle.
EmbeddedPayload == <<"a">> \o Boundary \o <<"a">>

\* A body with two parts named file: file a with payload "a", then file b
\* with payload B.
TwoFileBody(B) ==
    DelimLine \o FieldPart(StrParentDir, DirValue) \o DelimLine
        \o FilePart(<<"a">>, <<"a">>) \o DelimLine
        \o FilePart(<<"b">>, B) \o FinalLine

LastPayloads == { << >>, <<"b">> }

TwoFileBodies == { TwoFileBody(B) : B \in LastPayloads }

\* Bodies without a file part, a body whose first part has no header, a
\* body whose first line is not a boundary line, a body with a malformed
\* header, a body that ends inside the file part, and a file whose payload
\* holds the boundary string.
OtherBodies ==
    { DelimLine \o FieldPart(StrParentDir, DirValue) \o FinalLine,
      DelimLine \o CRLF \o <<"a">> \o CRLF \o FinalLine,
      DelimLine \o CRLF \o DelimLine \o FilePart(<<"a">>, <<"a">>) \o FinalLine,
      <<"z">> \o CRLF \o FilePart(<<"a">>, <<"a">>) \o FinalLine,
      DelimLine \o FieldPart(StrParentDir, DirValue) \o DelimLine
          \o <<"z">> \o CRLF,
      DelimLine \o FieldPart(StrParentDir, DirValue) \o DelimLine
          \o HdrFile(<<"a">>) \o CRLF \o CRLF \o <<"a", "a">>,
      DelimLine
          \o FieldPart(StrParentDir, Run(MaxContentLineBound + MaxChunk))
          \o FinalLine,
      UploadBody(DirValue, EmbeddedPayload) }

UpdateBodies ==
    { DelimLine \o FieldPart(StrTargetFile, TargetValue) \o DelimLine
          \o FilePart(<<"a">>, <<"a">>) \o FinalLine,
      DelimLine \o FieldPart(StrTargetFile, TargetValue) \o FinalLine,
      DelimLine \o FilePart(<<"a">>, <<"a">>) \o FinalLine }

Request(route, token, content_type, has_length, id, body) ==
    [route |-> route, token |-> token, content_type |-> content_type,
     has_length |-> has_length, progress_id |-> id, body |-> body]

\* A request slot no client uses.
Absent == Request("upload", "none", NULL, FALSE, 0, << >>)

GoodRequest(route, id, body) == Request(route, "ok", ContentType, TRUE, id, body)

\* Requests upload_headers_cb rejects: no token, a token the back-end does
\* not know, no or a wrong Content-Type, no Content-Length, no
\* X-Progress-ID.
BadRequests ==
    { Request("upload", "none", ContentType, TRUE, 1, DelimLine),
      Request("upload", "bad", ContentType, TRUE, 1, DelimLine),
      Request("update", "ok", NULL, TRUE, 1, DelimLine),
      Request("upload", "ok", StrMultipart, TRUE, 1, DelimLine),
      Request("upload", "ok", <<"t", ";", " ">> \o StrBoundary \o <<"=">> \o Boundary,
              TRUE, 1, DelimLine),
      Request("upload", "ok", ContentType, FALSE, 1, DelimLine),
      Request("update", "ok", ContentType, TRUE, 0, DelimLine) }

SpecRequests ==
    { GoodRequest("upload", 1, b) :
          b \in FileBodies \cup UploadBodies \cup TwoFileBodies \cup OtherBodies }
    \cup { GoodRequest("update", 1, b) : b \in UpdateBodies }
    \cup BadRequests

(***************************************************************************)
(* Specifications.                                                         *)
(***************************************************************************)
\* The state after upload_file_init: an empty registry, no request served
\* yet.  reqs gives each request slot its request.
InitRequests(reqs) ==
    /\ req = reqs
    /\ pc = [r \in Reqs |-> IF reqs[r] = Absent THEN "absent" ELSE "headers"]
    /\ handled = [r \in Reqs |-> FALSE]
    /\ pos = [r \in Reqs |-> 0]
    /\ cbarg = [r \in Reqs |-> "NULL"]
    /\ fsm = [r \in Reqs |-> NoFsm]
    /\ files = [r \in Reqs |-> << >>]
    /\ replies = [r \in Reqs |-> << >>]
    /\ rpcs = [r \in Reqs |-> << >>]
    /\ conn = [r \in Reqs |-> [keepalive |-> TRUE, paused |-> FALSE]]
    /\ progress = [r \in Reqs |-> NoProgress]
    /\ upload_progress = [i \in ProgressIds |-> 0]
    /\ crashed = FALSE
    /\ fault = [r \in Reqs |-> FALSE]
    /\ uaf = FALSE
    /\ poll = NoPoll

\* No call of gen_unique_filename under observation.
NoUnique ==
    [pc |-> "idle", dir |-> [found |-> FALSE, entries |-> {}],
     filename |-> NULL, unique_name |-> NULL, i |-> 0]

InitWith(reqs) == InitRequests(reqs) /\ unique = NoUnique

\* One request at a time, with any of the generated bodies.
Init ==
    \E q \in SpecRequests :
        InitWith([r \in Reqs |-> IF r = 1 THEN q ELSE Absent])

Next ==
    \E r \in Reqs :
        \/ upload_headers_cb(r)
        \/ upload_read_cb(r)
        \/ upload_cb(r)
        \/ update_cb(r)
        \/ upload_finish_cb(r)

Spec == Init /\ [][Next]_vars

\* Concurrent requests with short bodies; the clients choose their
\* progress ids, so two requests may use the same one.
ConcRequests ==
    { GoodRequest("upload", id, DelimLine) : id \in ProgressIds }
    \cup { GoodRequest("update", id, DelimLine \o CRLF) : id \in ProgressIds }

InitConc == \E q \in [Reqs -> ConcRequests] : InitWith(q)

SpecConc == InitConc /\ [][Next]_vars

\* A request that passes the validation of upload_headers_cb together
\* with one that fails it.
InitMixed ==
    \E q \in ConcRequests, b \in BadRequests :
        InitWith([r \in Reqs |-> IF r = 1 THEN q ELSE IF r = 2 THEN b ELSE Absent])

SpecMixed == InitMixed /\ [][Next]_vars

\* One upload with a short body and, concurrently, one request to
\* /upload_progress.
InitPoll ==
    \E q \in ConcRequests :
        InitWith([r \in Reqs |-> IF r = 1 THEN q ELSE Absent])

NextPoll ==
    \/ Next
    \/ upload_progress_cb
    \/ upload_progress_reply

SpecPoll == InitPoll /\ [][NextPoll]_vars

\* Calls of gen_unique_filename.  The filenames submitted: without '.',
\* with one, with two, starting with one and ending with one.
UniqueNames ==
    { <<"a">>, <<"a", ".", "t">>, <<"a", ".", "b", ".", "t">>,
      <<".", "t">>, <<"a", ".">> }

\* "name (i).ext" as a directory entry: filename with " (i)" put before
\* its last '.', or appended when it has none.
NameWithIndex(filename, i) ==
    LET dots == { k \in 1..Len(filename) : filename[k] = "." }
        n == <<" ", "(">> \o IntToStr(i) \o <<")">>
    IN  IF dots = {} THEN filename \o n
        ELSE LET d == CHOOSE k \in dots : \A j \in dots : j <= k
             IN  SubSeq(filename, 1, d - 1) \o n
                     \o SubSeq(filename, d, Len(filename))

\* The directory listings: with or without the filename itself, with the
\* indexed names 1..k except index h (h = 0: none left out), and with an
\* unrelated entry.
UniqueDirs(filename) ==
    { [found |-> TRUE,
       entries |-> (IF self THEN {filename} ELSE {})
                   \cup { NameWithIndex(filename, i) : i \in (1..kh[1]) \ {kh[2]} }
                   \cup {<<"z">>}] :
      self \in BOOLEAN,
      kh \in { x \in (0..MaxListed) \X (0..MaxListed) : x[2] <= x[1] } }
    \cup { [found |-> FALSE, entries |-> {}] }

InitUnique ==
    /\ InitRequests([r \in Reqs |-> Absent])
    /\ \E filename \in UniqueNames :
          \E dir \in UniqueDirs(filename) :
              unique = [pc |-> "call", dir |-> dir, filename |-> filename,
                        unique_name |-> NULL, i |-> 0]

\* gen_unique_filename is called with the arguments in unique and returns.
gen_unique_filename_call ==
    /\ unique.pc = "call"
    /\ unique' =
          [unique EXCEPT
             !.pc = "return",
             !.unique_name = gen_unique_filename(unique.dir, unique.filename),
             !.i = IF unique.dir.found
                   THEN UniqueLoop(unique.dir.entries,
                                   split_filename(unique.filename),
                                   unique.filename, 1).i
                   ELSE 0]
    /\ UNCHANGED <<req, pc, handled, pos, cbarg, fsm, files, replies, rpcs,
                   conn, progress, upload_progress, crashed, fault, uaf, poll>>

NextUnique == gen_unique_filename_call

SpecUnique == InitUnique /\ [][NextUnique]_vars

(***************************************************************************)
(* Claims.                                                                 *)
(***************************************************************************)
\* The whole body of request r handed to one upload_read_cb call on a new
\* FSM, the disk working.
OneShot(r) ==
    ReadChunk(NewFsm(get_boundary(req[r].content_type), req[r].progress_id),
              << >>, req[r].body, "ok")

\* Request r has received its whole body through upload_read_cb calls
\* during which the disk worked, and its FSM is still there.
BodyEnd(r) ==
    /\ pc[r] = "body"
    /\ cbarg[r] = "fsm"
    /\ pos[r] = ContentLength(r)
    /\ ~fault[r]
    /\ ~crashed

\* C1: chunk-boundary independence.  At body-end the temp files and
\* form_kvs of a request are those a single upload_read_cb call with the
\* whole body produces, whatever the chunks the body arrived in.
C1_ChunkIndependence ==
    \A r \in Reqs :
        BodyEnd(r) =>
            /\ files[r] = OneShot(r).files
            /\ fsm[r].form_kvs = OneShot(r).fsm.form_kvs

\* C2: round trip of the file payload.  A body of a parent_dir field with
\* value P and one file part with payload B ends with form_kvs holding P
\* under parent_dir and with one temp file whose content is B.
C2_PayloadRoundTrip ==
    \A r \in Reqs : \A B \in UploadPayloads :
        (BodyEnd(r) /\ req[r].body = UploadBody(DirValue, B)) =>
            /\ HashLookup(fsm[r].form_kvs, StrParentDir) = DirValue
            /\ Len(files[r]) = 1
            /\ files[r][1].content = B

\* upload_finish_cb has returned for request r, which had a RecvFSM.
Finished(r) == pc[r] = "done" /\ cbarg[r] = "freed"

\* C3: exhaustive cleanup.  After upload_finish_cb no temp file the request
\* created is left on disk and the registry holds no entry under the id of
\* the request.
C3_ExhaustiveCleanup ==
    \A r \in Reqs :
        Finished(r) =>
            /\ \A i \in 1..Len(files[r]) : ~files[r][i].linked
            /\ upload_progress[req[r].progress_id] = 0

\* Request r is in flight: its RecvFSM exists.
InFlight(r) == pc[r] = "body" /\ cbarg[r] = "fsm"

\* The state part of C4, for request r: the registry entry under the id of
\* the request is the record the request updates, its size is the
\* Content-Length and its uploaded counter lies between 0 and size.
ProgressEntryOk(r) ==
    /\ upload_progress[fsm[r].progress_id] = r
    /\ progress[r].live
    /\ progress[r].size = ContentLength(r)
    /\ 0 <= progress[r].uploaded
    /\ progress[r].uploaded <= progress[r].size

\* C4: the progress entry of an in-flight request has size equal to the
\* Content-Length, never changing, and 0 <= uploaded <= size, never
\* decreasing.
C4_ProgressBounds ==
    /\ [](\A r \in Reqs : InFlight(r) => ProgressEntryOk(r))
    /\ [][\A r \in Reqs :
            (InFlight(r) /\ InFlight(r)') =>
                /\ progress'[r].size = progress[r].size
                /\ progress'[r].uploaded >= progress[r].uploaded]_vars

\* The route handler of request r runs in this step, on a live FSM that is
\* not in RECV_ERROR.
HandlerRuns(r) ==
    /\ ~handled[r]
    /\ handled'[r]
    /\ cbarg[r] = "fsm"
    /\ fsm[r].state # RECV_ERROR

\* C5: when the route handler runs after a body whose read callbacks all
\* succeeded, progress.uploaded of the request equals the Content-Length.
C5_UploadedAtHandler ==
    [][\A r \in Reqs :
          HandlerRuns(r) => progress[r].uploaded = ContentLength(r)]_vars

\* C6: an FSM in RECV_CONTENT has its input_name set.
C6_ContentHasInputName ==
    \A r \in Reqs :
        (InFlight(r) /\ fsm[r].state = RECV_CONTENT) => fsm[r].input_name # NULL

\* The last reply sent for request r is a bare reply with this status code.
LastReplyIs(r, code) ==
    /\ replies[r] # << >>
    /\ replies[r][Len(replies[r])] = Reply(code)

\* C7: an FSM in RECV_CONTENT with input_name "file" has an open temp file as
\* its sink; when the temp file cannot be opened the FSM is in RECV_ERROR
\* and the request was answered with 500.
C7_FileContentHasSink ==
    \A r \in Reqs :
        InFlight(r) =>
            /\ (fsm[r].state = RECV_CONTENT /\ fsm[r].input_name = StrFile) =>
                  /\ fsm[r].fd \in 1..Len(files[r])
                  /\ fsm[r].tmp_file = fsm[r].fd
                  /\ files[r][fsm[r].fd].open
                  /\ files[r][fsm[r].fd].linked
            /\ fsm[r].fd = -1 =>
                  /\ fsm[r].state = RECV_ERROR
                  /\ LastReplyIs(r, EVHTP_RES_SERVERR)

\* A file part is being received into its sink.
C7_Witness ==
    \E r \in Reqs :
        /\ InFlight(r)
        /\ fsm[r].state = RECV_CONTENT
        /\ fsm[r].input_name = StrFile
        /\ fsm[r].fd \in 1..Len(files[r])
        /\ files[r][fsm[r].fd].content # << >>

\* C8: a request has at most one temp file that is open or on disk.
C8_OneTempFile ==
    \A r \in Reqs :
        Cardinality({ i \in 1..Len(files[r]) :
                        files[r][i].open \/ files[r][i].linked }) <= 1

\* The field the route requires: parent_dir for upload, target_file for
\* update.
RequiredField(r) ==
    IF req[r].route = "upload" THEN StrParentDir ELSE StrTargetFile

\* The handler of request r has run on an FSM that parsed without error,
\* never opened a temp file and holds the field its route requires.
NoFileHandled(r) ==
    /\ InFlight(r)
    /\ handled[r]
    /\ fsm[r].state # RECV_ERROR
    /\ files[r] = << >>
    /\ HashLookup(fsm[r].form_kvs, RequiredField(r)) # NULL

\* C9: a request without a file part, with the required field present,
\* is answered with the redirect carrying err=5 (ERROR_RECV) and makes no
\* back-end call.
C9_NoFileRedirect ==
    \A r \in Reqs :
        NoFileHandled(r) =>
            /\ replies[r] = << Redirect(ERROR_RECV) >>
            /\ rpcs[r] = << >>

\* A handler has answered such a request.
C9_Witness ==
    \E r \in Reqs : NoFileHandled(r) /\ replies[r] # << >>

\* C10: RECV_ERROR is terminal.  While the FSM of an in-flight request is in
\* RECV_ERROR no step changes its state, line buffer, form_kvs, temp files or
\* progress.uploaded, and no back-end call is made.
C10_ErrorIsTerminal ==
    [][\A r \in Reqs :
          (InFlight(r) /\ fsm[r].state = RECV_ERROR /\ InFlight(r)') =>
              /\ fsm'[r] = fsm[r]
              /\ files'[r] = files[r]
              /\ progress'[r].uploaded = progress[r].uploaded
              /\ rpcs'[r] = << >>]_vars

\* Body bytes were delivered after the FSM entered RECV_ERROR, and the
\* handler has run.
C10_Witness ==
    \E r \in Reqs :
        /\ InFlight(r)
        /\ fsm[r].state = RECV_ERROR
        /\ progress[r].uploaded < pos[r]
        /\ handled[r]

\* C11: upload_progress_cb never reads uploaded and size of a Progress
\* record after the record was removed from the registry and freed.
C11_SnapshotUnderMutex == ~poll.read_freed

\* The replies the handler of request r sends in this step.
HandlerReplies(r) ==
    IF ~handled[r] /\ handled'[r]
    THEN { replies'[r][i] : i \in (Len(replies[r]) + 1)..Len(replies'[r]) }
    ELSE {}

\* C12: every reply a route handler sends is a 302 redirect; the handlers
\* never answer with a 400 or a 500.
C12_HandlersOnlyRedirect ==
    [][\A r \in Reqs :
          \A reply \in HandlerReplies(r) : reply.code = EVHTP_RES_FOUND]_vars

\* The first line of the body of request r among the bytes delivered so
\* far.
FirstLine(r) == evbuffer_readln(SubSeq(req[r].body, 1, pos[r]))

\* The first complete line of the body of request r has been delivered and
\* does not contain the boundary.
BadFirstLine(r) ==
    /\ FirstLine(r).found
    /\ ~Contains(FirstLine(r).line, get_boundary(req[r].content_type))

\* C13: a first line without the boundary is answered with 400, keepalive
\* off, the request paused and the FSM in RECV_ERROR, and the request never
\* creates a temp file; while no complete first line has arrived the FSM is
\* in RECV_INIT and no reply is sent.
C13_BadFirstLine ==
    \A r \in Reqs :
        /\ (InFlight(r) /\ BadFirstLine(r)) =>
              /\ fsm[r].state = RECV_ERROR
              /\ replies[r] = << Reply(EVHTP_RES_BADREQ) >>
              /\ ~conn[r].keepalive
              /\ conn[r].paused
        /\ ((InFlight(r) \/ Finished(r)) /\ BadFirstLine(r)) => files[r] = << >>
        /\ (InFlight(r) /\ ~FirstLine(r).found) =>
              /\ fsm[r].state = RECV_INIT
              /\ replies[r] = << >>
              /\ files[r] = << >>

\* A bad first line has been read, and more of the body delivered after it.
C13_Witness ==
    \E r \in Reqs :
        /\ InFlight(r)
        /\ BadFirstLine(r)
        /\ fsm[r].state = RECV_ERROR
        /\ pos[r] = ContentLength(r)
        /\ Len(FirstLine(r).rest) > 0

\* The indexes 1..16 whose indexed name is not in the directory.
FreeIndexes(dir, filename) ==
    { i \in 1..16 : NameWithIndex(filename, i) \notin dir.entries }

\* The name C14 expects: the filename when it is free, else the indexed
\* name with the least free index, else the one with index 16.
ExpectedUniqueName(dir, filename) ==
    IF filename \notin dir.entries THEN filename
    ELSE IF FreeIndexes(dir, filename) # {}
    THEN NameWithIndex(filename,
             CHOOSE i \in FreeIndexes(dir, filename) :
                 \A j \in FreeIndexes(dir, filename) : i <= j)
    ELSE NameWithIndex(filename, 16)

\* C14: gen_unique_filename returns the filename when it does not collide,
\* else the first free "name (i).ext" for i = 1..16, else "name (16).ext";
\* it tries at most 16 candidates.
C14_UniqueName ==
    (unique.pc = "return" /\ unique.dir.found) =>
        /\ unique.unique_name = ExpectedUniqueName(unique.dir, unique.filename)
        /\ unique.i - 1 <= 16

\* A call where the filename and all 16 indexed names collide, for a
\* filename with an extension.
C14_Witness ==
    /\ unique.pc = "return"
    /\ unique.dir.found
    /\ unique.filename \in unique.dir.entries
    /\ FreeIndexes(unique.dir, unique.filename) = {}
    /\ unique.unique_name = <<"a", ".", "b", " ", "(", "1", "6", ")", ".", "t">>

\* C15: a payload line that holds the boundary string in its middle does
\* not end the file part; the temp file holds the whole payload.
C15_EmbeddedBoundary ==
    \A r \in Reqs :
        (BodyEnd(r) /\ req[r].body = UploadBody(DirValue, EmbeddedPayload)) =>
            /\ Len(files[r]) = 1
            /\ files[r][1].content = EmbeddedPayload

\* The payloads that, with the CR of the delimiter's CR LF, fill the line
\* buffer to MAX_CONTENT_LINE bytes or more without a complete line.
FlushPayloads ==
    { B \in Payloads :
        /\ Len(B) + 1 >= MAX_CONTENT_LINE
        /\ ~Contains(B, CRLF) }

\* C16: a file payload that ends where a MAX_CONTENT_LINE flush happens is
\* stored whole and without a byte of the delimiter's CR LF.
C16_FlushAtPayloadEnd ==
    \A r \in Reqs : \A B \in FlushPayloads :
        (BodyEnd(r) /\ req[r].body = FileBody(B)) =>
            /\ Len(files[r]) = 1
            /\ files[r][1].content = B

\* C17: after every upload_read_cb call the line buffer holds fewer than
\* MAX_CONTENT_LINE bytes plus one chunk.
C17_LineBufferBound ==
    \A r \in Reqs :
        InFlight(r) => Len(fsm[r].line) < MAX_CONTENT_LINE + MaxChunk

\* C18: last file wins.  After a body with two parts named file, tmp_file
\* names a temp file whose content is the payload of the last file part and
\* file_name is the filename of that part.
C18_LastFileWins ==
    \A r \in Reqs : \A B \in LastPayloads :
        (BodyEnd(r) /\ req[r].body = TwoFileBody(B)) =>
            /\ fsm[r].tmp_file \in 1..Len(files[r])
            /\ files[r][fsm[r].tmp_file].content = B
            /\ fsm[r].file_name = <<"b">>

\* The back-end ingest calls request r made.
IngestCalls(r) ==
    { i \in 1..Len(rpcs[r]) : rpcs[r][i].rpc \in {"post_file", "put_file"} }

\* The handler of request r has run on an FSM that parsed without error
\* and holds the field its route requires, and on a temp file that exists.
FileHandled(r) ==
    /\ InFlight(r)
    /\ handled[r]
    /\ fsm[r].state # RECV_ERROR
    /\ HashLookup(fsm[r].form_kvs, RequiredField(r)) # NULL
    /\ fsm[r].tmp_file \in 1..Len(files[r])
    /\ files[r][fsm[r].tmp_file].linked

\* The size of the temp file tmp_file names.
TempFileSize(r) == Len(files[r][fsm[r].tmp_file].content)

\* C19: a temp file that exists but is empty is answered with the err=5
\* redirect (ERROR_RECV), without post_file or put_file.
C19_EmptyFileIsRecvError ==
    \A r \in Reqs :
        (FileHandled(r) /\ TempFileSize(r) = 0) =>
            /\ replies[r] = << Redirect(ERROR_RECV) >>
            /\ IngestCalls(r) = {}

\* The state part of C20 for request r, whose handler has run.
GatedIngest(r) ==
    /\ \A i \in IngestCalls(r) :
          /\ i = 2
          /\ rpcs[r][1].rpc = "check_quota"
          /\ rpcs[r][1].ok
          /\ FileHandled(r)
          /\ TempFileSize(r) <= MAX_UPLOAD_FILE_SIZE
    /\ (FileHandled(r) /\ TempFileSize(r) > MAX_UPLOAD_FILE_SIZE) =>
          /\ replies[r] = << Redirect(ERROR_SIZE) >>
          /\ rpcs[r] = << >>
    /\ (FileHandled(r) /\ rpcs[r] # << >> /\ ~rpcs[r][1].ok) =>
          /\ rpcs[r][1].rpc = "check_quota"
          /\ Len(rpcs[r]) = 1
          /\ replies[r] = << Redirect(ERROR_QUOTA) >>

\* The answers to a file above the size limit and to a quota failure.
GateReplies == { << Redirect(ERROR_SIZE) >>, << Redirect(ERROR_QUOTA) >> }

\* upload_finish_cb runs for request r in this step.
FinishRuns(r) == InFlight(r) /\ Finished(r)'

\* C20: post_file and put_file are called only after the temp file was
\* found to exist, its size found to be at most MAX_UPLOAD_FILE_SIZE and
\* check_quota succeeded, in this order; a larger file is answered with
\* err=3 and a quota failure with err=4, both without the ingest call; the
\* temp file is removed by upload_finish_cb all the same.
C20_HandlerGating ==
    /\ [](\A r \in Reqs : (InFlight(r) /\ handled[r]) => GatedIngest(r))
    /\ [][\A r \in Reqs :
            (FinishRuns(r) /\ replies[r] \in GateReplies) =>
                /\ fsm[r].tmp_file \in 1..Len(files[r])
                /\ ~files'[r][fsm[r].tmp_file].linked
                /\ ~files'[r][fsm[r].tmp_file].open]_vars

\* An upload of a file above the size limit was answered with err=3 and its
\* temp file removed.
C20_Witness ==
    \E r \in Reqs :
        /\ Finished(r)
        /\ replies[r] = << Redirect(ERROR_SIZE) >>
        /\ rpcs[r] = << >>
        /\ Len(files[r]) = 1
        /\ Len(files[r][1].content) > MAX_UPLOAD_FILE_SIZE
        /\ ~files[r][1].linked

\* upload_read_cb takes a chunk of request r in this step, the FSM not
\* being in RECV_ERROR.
ChunkRead(r) ==
    /\ InFlight(r)
    /\ pos'[r] # pos[r]
    /\ fsm[r].state # RECV_ERROR

\* C21: every chunk delivered while the FSM is not in RECV_ERROR adds its
\* length to progress.uploaded, also when parsing that chunk moves the FSM
\* to RECV_ERROR; uploaded is the number of body bytes received.
C21_UploadedCountsWireBytes ==
    /\ [][\A r \in Reqs :
            ChunkRead(r) =>
                progress'[r].uploaded =
                    progress[r].uploaded + (pos'[r] - pos[r])]_vars
    /\ [](\A r \in Reqs :
            (InFlight(r) /\ fsm[r].state # RECV_ERROR) =>
                progress[r].uploaded = pos[r])

\* A chunk whose parsing failed has been counted, while no byte of the body
\* was written to a temp file.
C21_Witness ==
    \E r \in Reqs :
        /\ InFlight(r)
        /\ fsm[r].state = RECV_ERROR
        /\ progress[r].uploaded = pos[r]
        /\ pos[r] > 0
        /\ \A i \in 1..Len(files[r]) : files[r][i].content = << >>

\* Request r fails the validation of upload_headers_cb: no or a rejected
\* token, no multipart/form-data boundary, no Content-Length or no
\* X-Progress-ID.
FailsValidation(r) ==
    \/ req[r].token # "ok"
    \/ get_boundary(req[r].content_type) = NULL
    \/ ~req[r].has_length
    \/ req[r].progress_id = 0

\* upload_headers_cb has run for request r.
HeadersDone(r) == pc[r] \in {"body", "done"}

\* C22: a request that fails header-time validation is answered with 400,
\* keepalive off and the request paused; no RecvFSM and no Progress record
\* is made for it, and none of its callbacks, the route handler and
\* upload_finish_cb included, makes an RPC, sends another reply or changes
\* the registry.
C22_RejectedAtHeaders ==
    /\ [](\A r \in Reqs :
            (FailsValidation(r) /\ HeadersDone(r)) =>
                /\ replies[r] = << Reply(EVHTP_RES_BADREQ) >>
                /\ ~conn[r].keepalive
                /\ conn[r].paused
                /\ cbarg[r] = "NULL"
                /\ fsm[r] = NoFsm
                /\ progress[r] = NoProgress
                /\ rpcs[r] = << >>
                /\ files[r] = << >>)
    /\ [][\A r \in Reqs :
            (FailsValidation(r) /\ (pc'[r] # pc[r] \/ handled'[r] # handled[r])) =>
                /\ upload_progress' = upload_progress
                /\ progress' = progress]_vars

\* A rejected request has had its handler and its finish callback called
\* while the registry holds the entry of another request.
C22_Witness ==
    \E r \in Reqs :
        /\ FailsValidation(r)
        /\ pc[r] = "done"
        /\ handled[r]
        /\ \E id \in ProgressIds :
              /\ upload_progress[id] # 0
              /\ upload_progress[id] # r

\* C23: at most one reply is sent for a request over its whole lifecycle.
C23_AtMostOneReply ==
    \A r \in Reqs : Len(replies[r]) <= 1

\* A request answered by a failed read callback has since had further
\* chunks delivered, its handler called and its finish callback run.
C23_Witness ==
    \E r \in Reqs :
        /\ Finished(r)
        /\ handled[r]
        /\ pos[r] = ContentLength(r)
        /\ progress[r].uploaded < pos[r]
        /\ Len(replies[r]) = 1
        /\ replies[r][1].code \in {EVHTP_RES_BADREQ, EVHTP_RES_SERVERR}

\* C24: the Progress record an in-flight FSM updates is live from the
\* construction of the FSM until upload_finish_cb of its own request.
C24_ProgressStaysLive ==
    \A r \in Reqs : InFlight(r) => progress[r].live

\* C25: post_file and put_file are called only for a request whose file
\* part was ended by a boundary line: at body-end the FSM is in
\* RECV_HEADERS with input_name cleared.
C25_OnlyCompleteFileIngested ==
    \A r \in Reqs :
        (InFlight(r) /\ IngestCalls(r) # {}) =>
            /\ fsm[r].state = RECV_HEADERS
            /\ fsm[r].input_name = NULL

====
